---------------------------- MODULE Spec2Model ----------------------------
(***************************************************************************)
(* Model of memegle_cnstd.utils.get_model_file (src/memegle_cnstd/utils.py *)
(* lines 122-153): the model-asset resolver.  A call expands the path,     *)
(* creates the parent directory, probes for '<model_dir>.zip', downloads   *)
(* the archive when the probe finds none, extracts every entry into the    *)
(* parent directory and removes the archive.                               *)
(*                                                                         *)
(* Paths are sequences of components; an absolute path starts with "/".    *)
(* The file system is the pair (dirs, files).  Each process runs one call  *)
(* at a time; the statements of a call that touch the file system are      *)
(* separate steps, so that calls of two processes interleave.              *)
(***************************************************************************)
EXTENDS Naturals, Sequences, FiniteSets, TLC

VARIABLES dirs,    \* the directories that exist
          files,   \* the regular files that exist: path -> content
          call,    \* per process: the frame of its get_model_file call
          last,    \* the most recently finished call: who, target, outcome
          ncalls   \* calls started so far

vars == <<dirs, files, call, last, ncalls>>

(* Bound of the model: the number of calls started in one behaviour. *)
MaxCalls == 3

Procs == {"p1", "p2"}

--------------------------------------------------------------------------
(* The environment: home directory, registry, remote archives. *)

HOME == <<"/", "home">>

DATA == HOME \o <<".cnstd">>

(* consts.AVAILABLE_MODELS: identifier -> (version, url). *)
AVAILABLE_MODELS ==
    [n \in {"mobilenetv1", "resnet50_v1b"} |->
        <<"0.1.0", <<"example.org", "models", n>> >>]

ZipBytes(entries, eocd) == [kind |-> "zip", entries |-> entries, eocd |-> eocd]

Member(name, data, crc) == [name |-> name, data |-> data, crc |-> crc]

(* What the registry's url serves: the model's files, namespaced under the *)
(* identifier, one of them in a nested subdirectory.                       *)
RemoteEntries(url) ==
    LET id == url[Len(url)]
    IN  << Member(<<id, "model.params">>, "params", TRUE),
           Member(<<id, "sub", "symbol.json">>, "symbol", TRUE) >>

(* Contents an archive file found on disk before any call may have. *)
(* an empty file; a sound archive whose members lie outside the target;    *)
(* a sound archive namespaced under "no~model"; one with a damaged member. *)
PreArchives ==
    { ZipBytes(<< >>, FALSE),
      ZipBytes(<< Member(<<"README">>, "readme", TRUE),
                  Member(<<"other", "deep", "w.bin">>, "weights", TRUE) >>, TRUE),
      ZipBytes(<< Member(<<"no~model", "a.params">>, "params", TRUE),
                  Member(<<"no~model", "sub", "b.json">>, "symbol", TRUE) >>, TRUE),
      ZipBytes(<< Member(<<"no~model", "a.params">>, "params", TRUE),
                  Member(<<"no~model", "c.params">>, "damaged", FALSE) >>, TRUE) }

(* The paths callers pass. *)
Inputs ==
    { <<"~", ".cnstd", "mobilenetv1">>,
      <<"/", "home", ".cnstd", "resnet50_v1b">>,
      <<"/", "home", ".cnstd", "no~model">>,
      <<"no~model">> }

--------------------------------------------------------------------------
(* os.path and os: the path functions and file-system calls used. *)

(* Faulty variant: the home-directory shorthand is left as it is. *)
expanduserNoTilde(path) == path

expanduser(path) ==
    IF path # << >> /\ Head(path) = "~" THEN HOME \o Tail(path) ELSE path

(* Faulty variant: the path itself is taken for its parent. *)
dirnameSelf(path) == path

dirname(path) == SubSeq(path, 1, Len(path) - 1)

basename(path) == path[Len(path)]

(* Line 142: zip_file_path = model_dir + '.zip'. *)
ZipFilePath(model_dir) ==
    [model_dir EXCEPT ![Len(model_dir)] = @ \o ".zip"]

exists(path) == path \in dirs \/ path \in DOMAIN files

Prefixes(path) == { SubSeq(path, 1, k) : k \in 1..Len(path) }

(* os.makedirs(par_dir, exist_ok=True): the directories that exist after. *)
makedirs(par_dir) == dirs \cup Prefixes(par_dir)

(* Faulty variant: the file is left in place. *)
unlinkNothing(path) == files

(* os.remove(path): the files that exist after. *)
unlink(path) == [f \in DOMAIN files \ {path} |-> files[f]]

(* zipfile.ZipFile(path): readable only with its end-of-central-directory. *)
IsZip(content) == content.kind = "zip" /\ content.eocd


--------------------------------------------------------------------------
(* A call frame: the locals of get_model_file, the opened archive (zf, and *)
(* idx, the next member to extract), the outcome (result, ret), and what   *)
(* the call has done so far: what its probe found, how often it consulted  *)
(* the registry and invoked download().  fresh: neither the archive nor    *)
(* the target directory existed when the call began.                       *)

Idle ==
    [pc |-> "idle", arg |-> << >>, model_dir |-> << >>, par_dir |-> << >>,
     zip_file_path |-> << >>, zf |-> << >>, idx |-> 0,
     result |-> "none", ret |-> << >>,
     probed |-> "none", lookups |-> 0, downloads |-> 0, fresh |-> FALSE]

(* An exception leaves get_model_file: the call ends with the error. *)
Raise(p, error) ==
    /\ call' = [call EXCEPT ![p].pc = "idle", ![p].result = error]
    /\ last' = [proc |-> p, model_dir |-> call[p].model_dir, result |-> error]

(* Faulty variants: the probe also looks at the extracted directory; the   *)
(* probe takes an unreadable archive for a missing one.                    *)
NeedsDownloadUnlessExtracted(p) ==
    ~exists(call[p].zip_file_path) /\ ~exists(call[p].model_dir)

NeedsDownloadOrUnreadable(p) ==
    \/ ~exists(call[p].zip_file_path)
    \/ /\ call[p].zip_file_path \in DOMAIN files
       /\ ~IsZip(files[call[p].zip_file_path])

(* Line 143: the condition under which the download branch is entered. *)
NeedsDownload(p) == ~exists(call[p].zip_file_path)

(* Faulty variant: the members are extracted into the target directory. *)
ExtractIntoTarget(p) == call[p].model_dir

(* Line 150: the directory extractall() extracts into. *)
ExtractDir(p) == call[p].par_dir

Init ==
    /\ call = [p \in Procs |-> Idle]
    /\ last = [proc |-> "none", model_dir |-> << >>, result |-> "none"]
    /\ ncalls = 0
    /\ \/ /\ files = << >>
          /\ dirs \in { Prefixes(HOME), Prefixes(DATA) }
       \/ /\ dirs = Prefixes(DATA)
          /\ \E name \in {"mobilenetv1", "no~model"}, content \in PreArchives :
                files = (ZipFilePath(DATA \o <<name>>) :> content)

(* Lines 138-142: expanduser, dirname, os.makedirs(par_dir, exist_ok=True). *)
(* os.makedirs('') raises FileNotFoundError.                               *)
Call(p, path) ==
    /\ call[p].pc = "idle"
    /\ ncalls < MaxCalls
    /\ ncalls' = ncalls + 1
    /\ UNCHANGED files
    /\ LET model_dir == expanduser(path)
           par_dir   == dirname(model_dir)
           frame     == [Idle EXCEPT !.arg = path, !.model_dir = model_dir,
                                     !.par_dir = par_dir]
       IN  \/ /\ par_dir = << >>
              /\ call' = [call EXCEPT ![p] =
                             [frame EXCEPT !.result = "FileNotFoundError"]]
              /\ last' = [proc |-> p, model_dir |-> model_dir,
                          result |-> "FileNotFoundError"]
              /\ UNCHANGED dirs
           \/ /\ par_dir # << >>
              /\ dirs' = makedirs(par_dir)
              /\ call' = [call EXCEPT ![p] =
                             [frame EXCEPT !.pc = "probe",
                                  !.zip_file_path = ZipFilePath(model_dir),
                                  !.fresh = /\ ~exists(ZipFilePath(model_dir))
                                            /\ ~exists(model_dir)]]
              /\ UNCHANGED last

(* Lines 143-147: the probe of the archive and the registry lookup. *)
Probe(p) ==
    /\ call[p].pc = "probe"
    /\ UNCHANGED <<dirs, files, ncalls>>
    /\ \/ /\ ~NeedsDownload(p)
          /\ call' = [call EXCEPT ![p].pc = "open", ![p].probed = "present"]
          /\ UNCHANGED last
       \/ /\ NeedsDownload(p)
          /\ basename(call[p].model_dir) \notin DOMAIN AVAILABLE_MODELS
          /\ call' = [call EXCEPT ![p].pc = "idle", ![p].probed = "absent",
                                  ![p].lookups = @ + 1,
                                  ![p].result = "NotImplementedError"]
          /\ last' = [proc |-> p, model_dir |-> call[p].model_dir,
                      result |-> "NotImplementedError"]
       \/ /\ NeedsDownload(p)
          /\ basename(call[p].model_dir) \in DOMAIN AVAILABLE_MODELS
          /\ call' = [call EXCEPT ![p].pc = "download", ![p].probed = "absent",
                                  ![p].lookups = @ + 1]
          /\ UNCHANGED last

(* Line 148: download(url, path=zip_file_path, overwrite=True) is invoked. *)
(* The request fails before anything is written, or the file is opened     *)
(* for writing at the archive path.                                        *)
Download(p) ==
    /\ call[p].pc = "download"
    /\ UNCHANGED <<dirs, ncalls>>
    /\ \/ /\ call' = [call EXCEPT ![p].pc = "idle", ![p].downloads = @ + 1,
                                  ![p].result = "TransferError"]
          /\ last' = [proc |-> p, model_dir |-> call[p].model_dir,
                      result |-> "TransferError"]
          /\ UNCHANGED files
       \/ /\ files' = (call[p].zip_file_path :> ZipBytes(<< >>, FALSE)) @@ files
          /\ call' = [call EXCEPT ![p].pc = "write", ![p].downloads = @ + 1]
          /\ UNCHANGED last

(* Faulty variant: a transfer that breaks off deletes what it has written. *)
WriteWithCleanup(p) ==
    /\ call[p].pc = "write"
    /\ UNCHANGED <<dirs, ncalls>>
    /\ LET url     == AVAILABLE_MODELS[basename(call[p].model_dir)][2]
           entries == RemoteEntries(url)
       IN  \/ /\ files' = (call[p].zip_file_path :> ZipBytes(entries, TRUE))
                              @@ files
              /\ call' = [call EXCEPT ![p].pc = "open"]
              /\ UNCHANGED last
           \/ /\ files' = unlink(call[p].zip_file_path)
              /\ Raise(p, "TransferError")

(* Line 148, continued: the body is written; the transfer completes, or    *)
(* breaks off and leaves the bytes written so far.                         *)
Write(p) ==
    /\ call[p].pc = "write"
    /\ UNCHANGED <<dirs, ncalls>>
    /\ LET url     == AVAILABLE_MODELS[basename(call[p].model_dir)][2]
           entries == RemoteEntries(url)
       IN  \/ /\ files' = (call[p].zip_file_path :> ZipBytes(entries, TRUE))
                              @@ files
              /\ call' = [call EXCEPT ![p].pc = "open"]
              /\ UNCHANGED last
           \/ /\ \E k \in 0..(Len(entries) - 1) :
                    files' = (call[p].zip_file_path :>
                                 ZipBytes(SubSeq(entries, 1, k), FALSE)) @@ files
              /\ Raise(p, "TransferError")

(* Faulty variant: an archive that cannot be read is deleted. *)
OpenDiscardingUnreadable(p) ==
    /\ call[p].pc = "open"
    /\ UNCHANGED <<dirs, ncalls>>
    /\ LET z == call[p].zip_file_path
       IN  \/ /\ z \notin DOMAIN files
              /\ Raise(p, "FileNotFoundError")
              /\ UNCHANGED files
           \/ /\ z \in DOMAIN files
              /\ ~IsZip(files[z])
              /\ files' = unlink(z)
              /\ Raise(p, "BadZipFile")
           \/ /\ z \in DOMAIN files
              /\ IsZip(files[z])
              /\ call' = [call EXCEPT ![p].pc = "extract",
                                      ![p].zf = files[z].entries, ![p].idx = 1]
              /\ UNCHANGED <<files, last>>

(* Line 149: zipfile.ZipFile(zip_file_path). *)
Open(p) ==
    /\ call[p].pc = "open"
    /\ UNCHANGED <<dirs, files, ncalls>>
    /\ LET z == call[p].zip_file_path
       IN  \/ /\ z \notin DOMAIN files
              /\ Raise(p, "FileNotFoundError")
           \/ /\ z \in DOMAIN files
              /\ ~IsZip(files[z])
              /\ Raise(p, "BadZipFile")
           \/ /\ z \in DOMAIN files
              /\ IsZip(files[z])
              /\ call' = [call EXCEPT ![p].pc = "extract",
                                      ![p].zf = files[z].entries, ![p].idx = 1]
              /\ UNCHANGED last

(* Line 150: zf.extractall(par_dir), one member per step; leaving the with *)
(* block after the last member closes the archive.  A member whose check   *)
(* sum fails leaves its file created and raises; so may a read from an     *)
(* archive file that another process rewrote after it was opened.          *)
Extract(p) ==
    /\ call[p].pc = "extract"
    /\ UNCHANGED ncalls
    /\ LET z == call[p].zip_file_path
           i == call[p].idx
       IN  \/ /\ i > Len(call[p].zf)
              /\ call' = [call EXCEPT ![p].pc = "remove"]
              /\ UNCHANGED <<dirs, files, last>>
           \/ /\ i <= Len(call[p].zf)
              /\ call[p].zf[i].crc
              /\ LET target == ExtractDir(p) \o call[p].zf[i].name
                 IN  /\ dirs' = makedirs(dirname(target))
                     /\ files' = (target :> [kind |-> "data",
                                             data |-> call[p].zf[i].data])
                                     @@ files
              /\ call' = [call EXCEPT ![p].idx = i + 1]
              /\ UNCHANGED last
           \/ /\ i <= Len(call[p].zf)
              /\ ~call[p].zf[i].crc
              /\ LET target == ExtractDir(p) \o call[p].zf[i].name
                 IN  /\ dirs' = makedirs(dirname(target))
                     /\ files' = (target :> [kind |-> "data", data |-> ""])
                                     @@ files
              /\ Raise(p, "BadZipFile")
           \/ /\ i <= Len(call[p].zf)
              /\ z \in DOMAIN files
              /\ files[z] # ZipBytes(call[p].zf, TRUE)
              /\ Raise(p, "BadZipFile")
              /\ UNCHANGED <<dirs, files>>

(* Faulty variant: a missing archive is passed over in silence. *)
RemoveIfPresent(p) ==
    /\ call[p].pc = "remove"
    /\ UNCHANGED <<dirs, ncalls>>
    /\ files' = unlink(call[p].zip_file_path)
    /\ call' = [call EXCEPT ![p].pc = "idle", ![p].result = "ok",
                            ![p].ret = call[p].model_dir]
    /\ last' = [proc |-> p, model_dir |-> call[p].model_dir, result |-> "ok"]

(* Lines 151-153: os.remove(zip_file_path); return model_dir. *)
Remove(p) ==
    /\ call[p].pc = "remove"
    /\ UNCHANGED <<dirs, ncalls>>
    /\ LET z == call[p].zip_file_path
       IN  \/ /\ z \notin DOMAIN files
              /\ Raise(p, "FileNotFoundError")
              /\ UNCHANGED files
           \/ /\ z \in DOMAIN files
              /\ files' = unlink(z)
              /\ call' = [call EXCEPT ![p].pc = "idle", ![p].result = "ok",
                                      ![p].ret = call[p].model_dir]
              /\ last' = [proc |-> p, model_dir |-> call[p].model_dir,
                          result |-> "ok"]

Step(p) ==
    \/ \E path \in Inputs : Call(p, path)
    \/ Probe(p)
    \/ Download(p)
    \/ Write(p)
    \/ Open(p)
    \/ Extract(p)
    \/ Remove(p)

(* Calls of several processes interleave freely. *)
Next == \E p \in Procs : Step(p)

Spec == Init /\ [][Next]_vars

(* One call at a time: a process steps only while every other is idle. *)
SeqNext ==
    \E p \in Procs : (\A q \in Procs \ {p} : call[q].pc = "idle") /\ Step(p)

SeqSpec == Init /\ [][SeqNext]_vars

TypeOK ==
    /\ ncalls \in 0..MaxCalls
    /\ \A p \in Procs : call[p].pc \in
          {"idle", "probe", "download", "write", "open", "extract", "remove"}

--------------------------------------------------------------------------
(* Vocabulary of the properties. *)

StepBy(p) == call'[p] # call[p]

Finished(p) == call[p].pc = "idle" /\ call[p].result # "none"

AllIdle == \A q \in Procs : call[q].pc = "idle"

(* p's call is the one that ended last, and nothing has run since. *)
JustFinished(p) == Finished(p) /\ last.proc = p /\ AllIdle

Registered(path) == path[Len(path)] \in DOMAIN AVAILABLE_MODELS

ParentOf(path) == SubSeq(path, 1, Len(path) - 1)

IsUnder(dir, path) ==
    Len(path) > Len(dir) /\ SubSeq(path, 1, Len(dir)) = dir

Data(d) == [kind |-> "data", data |-> d]

Zip(p) == call[p].zip_file_path

(* An unreadable archive on disk that no download is still writing. *)
LeftPartial(z) ==
    /\ z \in DOMAIN files
    /\ ~(files[z].kind = "zip" /\ files[z].eocd)
    /\ \A q \in Procs : ~(call[q].pc = "write" /\ call[q].zip_file_path = z)

--------------------------------------------------------------------------
(* C1: with one call at a time, a call for a registered identifier that    *)
(* began with neither archive nor target directory on disk and returned    *)
(* leaves the target directory in place, holding every file of the         *)
(* model's archive, and no '<model_dir>.zip'.                               *)
C1_PopulatedNoArchive ==
    \A p \in Procs :
        (JustFinished(p) /\ call[p].result = "ok" /\ call[p].fresh
            /\ Registered(call[p].model_dir))
        => LET d  == call[p].model_dir
               es == RemoteEntries(AVAILABLE_MODELS[d[Len(d)]][2])
           IN  /\ d \in dirs
               /\ \A i \in 1..Len(es) :
                     /\ ParentOf(d) \o es[i].name \in DOMAIN files
                     /\ files[ParentOf(d) \o es[i].name] = Data(es[i].data)
                     /\ IsUnder(d, ParentOf(d) \o es[i].name)
               /\ ~exists(ZipFilePath(d))

C1_Witness ==
    \E p \in Procs :
        /\ JustFinished(p) /\ call[p].result = "ok" /\ call[p].fresh
        /\ Registered(call[p].model_dir)
        /\ call[p].downloads = 1

(* C2: with one call at a time, a call that follows a successful call for  *)
(* the same target, whose directory is on disk, never invokes download().  *)
C2_SecondCallNoDownload ==
    \A p \in Procs :
        (call[p].pc # "idle" /\ last.result = "ok"
            /\ last.model_dir = call[p].model_dir /\ call[p].model_dir \in dirs)
        => call[p].downloads = 0

C4_UnknownAlwaysNotAvailable ==
    \A p \in Procs :
        (Finished(p) /\ ~Registered(call[p].model_dir)
            /\ call[p].probed # "present"
            /\ ~exists(ZipFilePath(call[p].model_dir)))
        => (call[p].result = "NotImplementedError" /\ call[p].downloads = 0)

(* C4 for paths with a directory part (where os.makedirs succeeds):        *)
(* a call whose base name is not registered and whose probe                *)
(* finds no archive fails with NotImplementedError after one registry      *)
(* lookup and no download; the steps of such a call change no file and     *)
(* add no directory other than the parent directory and its ancestors.     *)
C4_UnknownFailsFast ==
    /\ [](\A p \in Procs :
            (Finished(p) /\ ~Registered(call[p].model_dir)
                /\ call[p].probed # "present"
                /\ ParentOf(call[p].model_dir) # << >>)
            => /\ call[p].result = "NotImplementedError"
               /\ call[p].downloads = 0
               /\ call[p].lookups = 1)
    /\ [][\A p \in Procs :
            (StepBy(p) /\ (call[p].pc = "idle"
                             \/ call'[p].result = "NotImplementedError"))
            => /\ files' = files
               /\ dirs \subseteq dirs'
               /\ dirs' \ dirs \subseteq
                     Prefixes(ParentOf(call'[p].model_dir))]_vars

C4_Witness ==
    \E p \in Procs :
        /\ Finished(p) /\ call[p].result = "NotImplementedError"
        /\ ~Registered(call[p].model_dir)
        /\ call[p].probed = "absent" /\ call[p].downloads = 0
        /\ ParentOf(call[p].model_dir) \in dirs

(* C5: a call whose probe finds a file at '<model_dir>.zip' goes to the    *)
(* extraction with neither registry lookup nor download, whatever the      *)
(* file holds and whether or not the base name is registered; opening an   *)
(* unreadable archive ends the call with BadZipFile, no download made.     *)
C5_ExistingArchiveSkipsDownload ==
    /\ [](\A p \in Procs :
            call[p].probed = "present"
            => (call[p].lookups = 0 /\ call[p].downloads = 0))
    /\ [][\A p \in Procs :
            StepBy(p)
            => /\ (call[p].pc = "probe" /\ Zip(p) \in DOMAIN files)
                  => (call'[p].pc = "open" /\ call'[p].lookups = 0
                        /\ files' = files)
               /\ (call[p].pc = "open" /\ call[p].probed = "present"
                     /\ Zip(p) \in DOMAIN files
                     /\ ~(files[Zip(p)].kind = "zip" /\ files[Zip(p)].eocd))
                  => (call'[p].result = "BadZipFile" /\ call'[p].pc = "idle"
                        /\ call'[p].downloads = 0 /\ files' = files)]_vars

C5_Witness ==
    \E p \in Procs :
        /\ Finished(p) /\ call[p].result = "BadZipFile"
        /\ call[p].probed = "present" /\ call[p].downloads = 0
        /\ ~Registered(call[p].model_dir)
        /\ LeftPartial(Zip(p))

(* C6: with one call at a time, an unreadable archive that a broken-off    *)
(* download left on disk stays as it is in every later step: a call that   *)
(* probes it goes to the extraction without download and fails with        *)
(* BadZipFile; and what a failed download leaves is never readable.        *)
C6_PartialArchiveNeverRepaired ==
    /\ [](\A z \in DOMAIN files :
            (AllIdle /\ last.result = "TransferError"
                /\ z = ZipFilePath(last.model_dir))
            => LeftPartial(z))
    /\ [][/\ \A z \in DOMAIN files :
                LeftPartial(z) => (z \in DOMAIN files' /\ files'[z] = files[z])
          /\ \A p \in Procs :
                (StepBy(p) /\ Zip(p) \in DOMAIN files /\ LeftPartial(Zip(p)))
                => /\ call[p].pc = "probe"
                      => (call'[p].pc = "open" /\ call'[p].downloads = 0)
                   /\ call[p].pc = "open"
                      => call'[p].result = "BadZipFile"]_vars

C6_Witness ==
    \E p \in Procs :
        /\ call[p].pc = "open" /\ call[p].probed = "present"
        /\ call[p].downloads = 0
        /\ last.result = "TransferError"
        /\ last.model_dir = call[p].model_dir
        /\ LeftPartial(Zip(p))

(* C7, as claimed: a call that returns, returns the path it was given. *)
C7_ReturnsInputPath ==
    \A p \in Procs : call[p].result = "ok" => call[p].ret = call[p].arg

(* C7, amended: a call that returns, returns the expanded path: a first    *)
(* component '~' is replaced by the home directory, so the value differs   *)
(* from the path passed in; a path with another first component is         *)
(* returned as passed in, also when it holds a '~' further on.             *)
C7_ReturnsExpandedPath ==
    \A p \in Procs :
        call[p].result = "ok"
        => /\ call[p].ret = IF Head(call[p].arg) = "~"
                            THEN HOME \o Tail(call[p].arg) ELSE call[p].arg
           /\ (call[p].ret = call[p].arg) <=> (Head(call[p].arg) # "~")

C7_Witness ==
    \E p \in Procs :
        /\ call[p].result = "ok" /\ Head(call[p].arg) = "~"
        /\ call[p].ret # call[p].arg

(* C8: with one call at a time, after a call that returned every member of *)
(* the archive it opened is a file with the member's content at the        *)
(* member's path under the parent of the target, not under the target;     *)
(* a member lies inside the target directory exactly when its name begins  *)
(* with the target's base name.                                            *)
C8_ExtractRoundTrip ==
    \A p \in Procs :
        (JustFinished(p) /\ call[p].result = "ok")
        => \A i \in 1..Len(call[p].zf) :
              LET d == call[p].model_dir
                  m == call[p].zf[i]
                  t == ParentOf(d) \o m.name
              IN  /\ t \in DOMAIN files
                  /\ files[t] = Data(m.data)
                  /\ ParentOf(t) \in dirs
                  /\ d \o m.name \notin DOMAIN files
                  /\ IsUnder(d, t) <=> (Head(m.name) = d[Len(d)])

C8_Witness ==
    \E p \in Procs :
        /\ JustFinished(p) /\ call[p].result = "ok"
        /\ call[p].probed = "present"
        /\ \E i \in 1..Len(call[p].zf) :
              /\ Len(call[p].zf[i].name) > 2
              /\ ~IsUnder(call[p].model_dir,
                          ParentOf(call[p].model_dir) \o call[p].zf[i].name)

(* C9: nothing excludes two calls for one target from each other: a call   *)
(* in progress can always take its next step whatever the other process    *)
(* does, whoever downloads found the archive absent, and a call that finds *)
(* its archive gone at the open or the remove fails with                   *)
(* FileNotFoundError.  The witness is a run in which both calls found the  *)
(* archive absent and downloaded, and one removed the archive before the   *)
(* other's remove, which failed.                                           *)
C9_NoMutualExclusion ==
    /\ [](\A p \in Procs :
            /\ call[p].pc # "idle" => ENABLED Step(p)
            /\ call[p].pc \in {"download", "write"}
                  => call[p].probed = "absent")
    /\ [][\A p \in Procs :
            (StepBy(p) /\ call[p].pc \in {"open", "remove"}
                /\ Zip(p) \notin DOMAIN files)
            => (call'[p].result = "FileNotFoundError" /\ files' = files)]_vars

C9_Witness ==
    \E p, q \in Procs :
        /\ p # q /\ ncalls = 2
        /\ Zip(p) = Zip(q)
        /\ call[p].downloads = 1 /\ call[q].downloads = 1
        /\ Finished(p) /\ call[p].result = "ok"
        /\ Finished(q) /\ call[q].result = "FileNotFoundError"
        /\ call[q].idx > Len(call[q].zf) /\ call[q].zf # << >>

(* C10: no step removes a directory, and a step removes a file only if it  *)
(* is the remove of a call whose extraction ran through all members, the   *)
(* file is that call's archive, and the call returns; so a step in which   *)
(* a call ends with an error deletes nothing.                              *)
C10_OnlyArchiveRemovedAfterExtraction ==
    [][/\ dirs \subseteq dirs'
       /\ \A f \in DOMAIN files \ DOMAIN files' :
             \E p \in Procs :
                /\ StepBy(p) /\ call[p].pc = "remove" /\ f = Zip(p)
                /\ call[p].idx > Len(call[p].zf)
                /\ call'[p].result = "ok"
       /\ \A p \in Procs :
             (StepBy(p) /\ call'[p].result \notin {"none", "ok"})
             => DOMAIN files \subseteq DOMAIN files']_vars

C10_Witness ==
    \E p \in Procs :
        /\ Finished(p) /\ call[p].result = "TransferError"
        /\ LeftPartial(Zip(p))

=============================================================================
